---- MODULE Spec2Model ----
(***************************************************************************)
(* Request-admission middleware of exchange-shared:                        *)
(*   pkg/interceptors/auth.go          AuthInterceptor                     *)
(*   pkg/common/user_id.go             GetUserID                           *)
(*   pkg/interceptors/rate_limiter.go  MethodRateLimiterInterceptor         *)
(* One unit of model time is five minutes; rates are tokens per unit.      *)
(* Strings that the code slices are sequences of one-character strings.    *)
(***************************************************************************)
EXTENDS Integers, Sequences, FiniteSets, TLC

\* ------------------------------------------------------------------ bounds
MaxElapsed == 1
MaxCalls == 2
MaxBurst == 2
MaxRate == 1
MaxTokLen == 2
MaxSetMethod == 1
MaxSetPerUser == 1

\* --------------------------------------------------------- program constants
\* cleanupInterval: 5 * time.Minute, in units of five minutes
CleanupInterval == 1
\* maxAge: 15 * time.Minute, in units of five minutes
MaxAge == 3
\* token = token[7:]
SchemeOffset == 7

\* -------------------------------------------------------------------- sets
Slots == {"c1", "c2"}
Methods == {"M1", "M2"}
Users == {"u1", "u2"}
\* the (tokens per unit, capacity) pairs limiters are configured with
Rates == 1..MaxRate
Bursts == 1..MaxBurst
None == "<none>"

Min(a, b) == IF a <= b THEN a ELSE b

\* ----------------------------------------------------------------- strings
Bearer == <<"B", "e", "a", "r", "e", "r">>
BearerSp == Bearer \o <<" ">>

HasPrefix(s, prefix) ==
  /\ Len(s) >= Len(prefix)
  /\ SubSeq(s, 1, Len(prefix)) = prefix

\* s[n:] of Go; the caller guards n <= Len(s) (Go panics otherwise)
SliceFrom(s, n) == SubSeq(s, n + 1, Len(s))

SeqsUpTo(S, n) == UNION {[1..k -> S] : k \in 0..n}
Tokens == SeqsUpTo({"a", "b"}, MaxTokLen)

Prefixes ==
  { <<>>, SubSeq(Bearer, 1, 4), Bearer, BearerSp, Bearer \o <<"X">>,
    <<"b", "e", "a", "r", "e", "r", " ">>, <<"B", "a", "s", "i", "c", " ">> }

\* the authorization values the Auth Stage is exercised with
AuthValues == {p \o t : p \in Prefixes, t \in Tokens}

\* ------------------------------------------------- the validator's results
\* jwt.MapClaims is map[string]interface{}: a claim is a dynamically typed value
Str(v) == [type |-> "string", val |-> v]
Strs(v) == [type |-> "[]string", val |-> v]
Anys(v) == [type |-> "[]interface{}", val |-> v]
AbsentStr == [type |-> "nil", val |-> ""]
AbsentList == [type |-> "nil", val |-> <<>>]

RoleLists == {<<>>, <<"admin">>}
PermLists == {<<>>, <<"trade">>}

OkResult(sub, roles, perms) ==
  [err |-> FALSE, sub |-> sub, roles |-> roles, permissions |-> perms]
ErrResult ==
  [err |-> TRUE, sub |-> AbsentStr, roles |-> AbsentList, permissions |-> AbsentList]

\* well-typed claim sets (a validator that decodes into string / []string)
TypedResults ==
  {OkResult(Str(s), Strs(r), Strs(p)) : s \in Users \cup {""}, r \in RoleLists, p \in PermLists}
\* what encoding/json puts into a MapClaims: arrays decode as []interface{}
JSONResults ==
  {OkResult(s, r, p) :
     s \in {Str("u1"), AbsentStr},
     r \in {Anys(<<"admin">>), AbsentList},
     p \in {Anys(<<"trade">>), AbsentList}}
ValidatorResults == {ErrResult} \cup TypedResults \cup JSONResults

\* ------------------------------------------------------------ Auth Stage
NoCtx == [set |-> FALSE, user_id |-> "", roles |-> <<>>, permissions |-> <<>>]
NotCalled == <<"<not called>">>

AuthOut(status, msg, validated, ctx, next) ==
  [status |-> status, msg |-> msg, validated |-> validated, ctx |-> ctx, next |-> next]

\* an Auth Stage that lets a call through although the validator refused it
AuthInterceptorLenient(hasMD, authz, vres) ==
  IF ~hasMD THEN
    AuthOut("Unauthenticated", "missing metadata", NotCalled, NoCtx, FALSE)
  ELSE IF Len(authz) = 0 THEN
    AuthOut("Unauthenticated", "missing authorization header", NotCalled, NoCtx, FALSE)
  ELSE LET token == authz[1] IN
    IF ~HasPrefix(token, Bearer) THEN
      AuthOut("Unauthenticated", "invalid authorization format", NotCalled, NoCtx, FALSE)
    ELSE IF Len(token) < SchemeOffset THEN
      AuthOut("panic", "slice bounds out of range", NotCalled, NoCtx, FALSE)
    ELSE
      AuthOut("OK", "", SliceFrom(token, SchemeOffset),
              [set |-> TRUE, user_id |-> vres.sub.val, roles |-> vres.roles.val,
               permissions |-> vres.permissions.val],
              TRUE)

\* what one run of the interceptor AuthInterceptor returns: hasMD is
\* metadata.FromIncomingContext's ok, authz is md.Get("authorization") (a
\* sequence of values), vres is what jwtValidator.Validate returns when called
AuthInterceptor(hasMD, authz, vres) ==
  IF ~hasMD THEN
    AuthOut("Unauthenticated", "missing metadata", NotCalled, NoCtx, FALSE)
  ELSE IF Len(authz) = 0 THEN
    AuthOut("Unauthenticated", "missing authorization header", NotCalled, NoCtx, FALSE)
  ELSE LET token == authz[1] IN
    IF ~HasPrefix(token, Bearer) THEN
      AuthOut("Unauthenticated", "invalid authorization format", NotCalled, NoCtx, FALSE)
    ELSE IF Len(token) < SchemeOffset THEN
      \* token[7:] with len(token) < 7: slice bounds out of range
      AuthOut("panic", "slice bounds out of range", NotCalled, NoCtx, FALSE)
    ELSE LET t == SliceFrom(token, SchemeOffset) IN
      IF vres.err THEN
        AuthOut("Unauthenticated", "invalid token", t, NoCtx, FALSE)
      ELSE IF \/ vres.sub.type # "string"
              \/ vres.roles.type # "[]string"
              \/ vres.permissions.type # "[]string" THEN
        \* a failed single-value type assertion panics
        AuthOut("panic", "interface conversion", t, NoCtx, FALSE)
      ELSE
        AuthOut("OK", "", t,
                [set |-> TRUE, user_id |-> vres.sub.val, roles |-> vres.roles.val,
                 permissions |-> vres.permissions.val],
                TRUE)

\* GetUserID: the first "user_id" value of the incoming metadata, else ""
GetUserID(hasMD, mdUser) ==
  IF ~hasMD THEN ""
  ELSE IF Len(mdUser) = 0 THEN ""
  ELSE mdUser[1]

\* ------------------------------------------------------------ rate.Limiter
\* a token bucket: NewLimiter(r, b) starts full; tokens refill with the clock
NewLimiter(r, b) == [rate |-> r, burst |-> b, tokens |-> b]
Allow(l) == l.tokens >= 1
Take(l) == IF Allow(l) THEN [l EXCEPT !.tokens = @ - 1] ELSE l
Refill(l, d) == [l EXCEPT !.tokens = Min(l.burst, @ + d * l.rate)]

\* ------------------------------------------------------------------- state
VARIABLES
  limiter,          \* the rate.Limiter a server hands to RateLimiterInterceptor
  clock,            \* time.Now(), in units of five minutes
  limiters,         \* the rate.Limiter objects: 0 is defaultLimiter, k the k-th SetMethodLimit's
  methodLimiters,   \* m.methodLimiters: method -> limiter object
  users,            \* the userLimiterStruct objects: address -> [limiter, lastUsed]
  perUserLimiters,  \* m.perUserLimiters: userID -> address
  perUserRate,      \* m.perUserRate
  perUserBurst,     \* m.perUserBurst
  methodMu,         \* m.methodMu: the holder of the write lock, or FreeMu; a
                    \* read-locked section is one step, taken when no writer holds it
  perUserMu,        \* m.perUserMu, likewise
  calls,            \* the calls in flight: slot -> the call's locals
  setter,           \* SetPerUserLimit in progress: [pc, rate, burst]
  sweeper,          \* cleanupOldUsers: [pc, now, toDelete, lastTick]; scanned is
                    \* history: the identities in the table at the scan
  count             \* history: calls started, configuration calls made since the
                    \* initial state, calls admitted, per-user templates requested

vars == <<clock, limiter, limiters, methodLimiters, users, perUserLimiters, perUserRate,
          perUserBurst, methodMu, perUserMu, calls, setter, sweeper, count>>

registry == <<limiters, methodLimiters, users, perUserLimiters, perUserRate,
              perUserBurst, methodMu, perUserMu>>

NoUser == 0

IdleCall ==
  [pc |-> "idle", hasMD |-> FALSE, authz |-> <<>>, vres |-> ErrResult, mdUser |-> <<>>,
   method |-> None, auth |-> AuthOut("", "", NotCalled, NoCtx, FALSE),
   limiter |-> 0, userID |-> "", rate |-> 0, user |-> NoUser, found |-> FALSE,
   gOK |-> "unset", mOK |-> "unset", uOK |-> "unset", epoch |-> 0,
   status |-> "", msg |-> "", handled |-> FALSE]

\* a sync.RWMutex nobody holds
FreeMu == None

\* NewMethodRateLimiterInterceptor(defaultLimit, defaultBurst)
NewMethodRateLimiterInterceptor(defaultLimit, defaultBurst) ==
  /\ limiters = (0 :> NewLimiter(defaultLimit, defaultBurst))
  /\ methodLimiters = <<>>
  /\ users = <<>>
  /\ perUserLimiters = <<>>
  /\ perUserRate = 0
  /\ perUserBurst = 0
  /\ methodMu = FreeMu
  /\ perUserMu = FreeMu
  /\ sweeper = [pc |-> "wait", now |-> 0, toDelete |-> {}, lastTick |-> 0,
                scanned |-> {}]

Quiet ==
  /\ clock = 0
  /\ limiter = NewLimiter(MaxRate, MaxBurst)
  /\ calls = [c \in Slots |-> IdleCall]
  /\ setter = [pc |-> "idle", rate |-> 0, burst |-> 0]
  /\ count = [started |-> 0, elapsed |-> 0, setMethod |-> 0, setPerUser |-> 0,
              admitted |-> [u \in Users \cup {""} |-> 0],
              templates |-> {<<0, 0>>}]

Init ==
  /\ Quiet
  /\ \E r \in Rates, b \in Bursts : NewMethodRateLimiterInterceptor(r, b)

\* -------------------------------------------------------------- helpers
Put(f, k, v) == [x \in DOMAIN f \cup {k} |-> IF x = k THEN v ELSE f[x]]
Drop(f, ks) == [x \in DOMAIN f \ ks |-> f[x]]

\* a fresh rate.Limiter object: 0 .. n-1 are taken
NewId == Cardinality(DOMAIN limiters)

\* a fresh address for a userLimiterStruct
NewAddr == CHOOSE a \in 1..(Cardinality(DOMAIN users) + 1) : a \notin DOMAIN users

Reject(call, status, msg) ==
  [call EXCEPT !.pc = "done", !.status = status, !.msg = msg]

\* return handler(ctx, req)
Handle(call) ==
  [call EXCEPT !.pc = "done", !.status = "OK", !.handled = TRUE]

\* history: one more call admitted, under the identity the per-user tier read
\* ("" when that tier was not evaluated)
Admitted(call) == [count EXCEPT !.admitted[call.userID] = @ + 1]

\* the slots are interchangeable: a new call takes the first free one
Before(c, d) == c = d \/ (c = "c1" /\ d = "c2")

\* what a call carries: whether it has metadata, and its authorization values
Carries(hasMD, authz) == [hasMD |-> hasMD, authz |-> authz]

\* the inputs of the calls that run through the whole chain
ChainInputs == {Carries(TRUE, <<BearerSp \o <<"a">> >>)}
ChainResults == {ErrResult, OkResult(Str("u1"), Strs(<<>>), Strs(<<>>))}
MdUsers == {<<>>} \cup {<<u>> : u \in Users}

\* --------------------------------------------------------------- Auth Stage
\* a call arrives and runs AuthInterceptor; its next handler is the
\* Admission Stage's interceptor when chained, else the service's handler
Auth(c, inputs, results, chained) ==
  /\ calls[c].pc = "idle"
  /\ \A d \in Slots : calls[d].pc = "idle" => Before(c, d)
  /\ count.started < MaxCalls
  /\ \E in \in inputs, vres \in results, mdUser \in MdUsers, method \in Methods :
       LET hasMD == in.hasMD
           authz == in.authz
           out == AuthInterceptor(hasMD, authz, vres) IN
       /\ out.validated = NotCalled => vres = ErrResult
       /\ ~(out.next /\ chained) => mdUser = <<>> /\ method = "M1"
       /\ calls' = [calls EXCEPT ![c] =
            [IdleCall EXCEPT !.pc = IF out.next /\ chained THEN "global" ELSE "done",
                             !.hasMD = hasMD, !.authz = authz, !.vres = vres,
                             !.mdUser = mdUser, !.method = method, !.auth = out,
                             !.status = IF out.next THEN (IF chained THEN "" ELSE "OK")
                                        ELSE out.status,
                             !.msg = out.msg,
                             !.handled = out.next /\ ~chained]]
       /\ count' = [count EXCEPT !.started = @ + 1]
  /\ UNCHANGED <<clock, limiter, registry, setter, sweeper>>

\* ------------------------------------------------- RateLimiterInterceptor
\* a call arrives at a server whose interceptor is RateLimiterInterceptor(limiter):
\* if !limiter.Allow() { return nil, ResourceExhausted } return handler(ctx, req)
RateLimiterInterceptor(c) ==
  /\ calls[c].pc = "idle"
  /\ \A d \in Slots : calls[d].pc = "idle" => Before(c, d)
  /\ count.started < MaxCalls
  /\ IF Allow(limiter)
     THEN /\ limiter' = Take(limiter)
          /\ calls' = [calls EXCEPT ![c] = Handle(IdleCall)]
     ELSE /\ limiter' = limiter
          /\ calls' = [calls EXCEPT ![c] =
               Reject(IdleCall, "ResourceExhausted", "rate limit exceeded")]
  /\ count' = [count EXCEPT !.started = @ + 1]
  /\ UNCHANGED <<clock, registry, setter, sweeper>>

\* --------------------------------------------------- Admission Stage: global
\* limiter := m.defaultLimiter; if methodLimiter, ok := ...; ok { limiter = methodLimiter }
ResolveMethodLimiter(method) ==
  IF method \in DOMAIN methodLimiters THEN methodLimiters[method] ELSE 0

\* a global tier that charges the method's limiter for a call it rejects
GlobalChargesMethod(c) ==
  /\ calls[c].pc = "global"
  /\ IF Allow(limiters[0])
     THEN /\ limiters' = [limiters EXCEPT ![0] = Take(@)]
          /\ calls' = [calls EXCEPT ![c].pc = "mRead", ![c].gOK = "yes"]
     ELSE /\ limiters' = [limiters EXCEPT ![ResolveMethodLimiter(calls[c].method)] = Take(@)]
          /\ calls' = [calls EXCEPT ![c] =
               Reject([@ EXCEPT !.gOK = "no"], "ResourceExhausted",
                      "global rate limit exceeded")]
  /\ UNCHANGED <<clock, limiter, methodLimiters, users, perUserLimiters, perUserRate,
                 perUserBurst, methodMu, perUserMu, setter, sweeper, count>>

Global(c) ==
  /\ calls[c].pc = "global"
  /\ IF Allow(limiters[0])
     THEN /\ limiters' = [limiters EXCEPT ![0] = Take(@)]
          /\ calls' = [calls EXCEPT ![c].pc = "mRead", ![c].gOK = "yes"]
     ELSE /\ limiters' = limiters
          /\ calls' = [calls EXCEPT ![c] =
               Reject([@ EXCEPT !.gOK = "no"], "ResourceExhausted",
                      "global rate limit exceeded")]
  /\ UNCHANGED <<clock, limiter, methodLimiters, users, perUserLimiters, perUserRate,
                 perUserBurst, methodMu, perUserMu, setter, sweeper, count>>

\* --------------------------------------------------- Admission Stage: method
\* RLock; the lookup; RUnlock: one step, taken when no writer holds methodMu
MethodRead(c) ==
  /\ calls[c].pc = "mRead"
  /\ methodMu = FreeMu
  /\ calls' = [calls EXCEPT ![c].pc = "mAllow",
                            ![c].limiter = ResolveMethodLimiter(calls[c].method)]
  /\ UNCHANGED <<clock, limiter, registry, setter, sweeper, count>>

\* a method tier that goes on to the per-user tier after rejecting
MethodAllowNoStop(c) ==
  /\ calls[c].pc = "mAllow"
  /\ IF Allow(limiters[calls[c].limiter])
     THEN /\ limiters' = [limiters EXCEPT ![calls[c].limiter] = Take(@)]
          /\ calls' = [calls EXCEPT ![c].pc = "puCheck", ![c].mOK = "yes"]
     ELSE /\ limiters' = limiters
          /\ calls' = [calls EXCEPT ![c].pc = "puCheck", ![c].mOK = "no"]
  /\ UNCHANGED <<clock, limiter, methodLimiters, users, perUserLimiters, perUserRate,
                 perUserBurst, methodMu, perUserMu, setter, sweeper, count>>

\* a method tier that gives the global token back when it rejects
MethodAllowRefunds(c) ==
  /\ calls[c].pc = "mAllow"
  /\ IF Allow(limiters[calls[c].limiter])
     THEN /\ limiters' = [limiters EXCEPT ![calls[c].limiter] = Take(@)]
          /\ calls' = [calls EXCEPT ![c].pc = "puCheck", ![c].mOK = "yes"]
     ELSE /\ limiters' = [limiters EXCEPT ![0].tokens = @ + 1]
          /\ calls' = [calls EXCEPT ![c] =
               Reject([@ EXCEPT !.mOK = "no"], "ResourceExhausted",
                      "method rate limit exceeded")]
  /\ UNCHANGED <<clock, limiter, methodLimiters, users, perUserLimiters, perUserRate,
                 perUserBurst, methodMu, perUserMu, setter, sweeper, count>>

MethodAllow(c) ==
  /\ calls[c].pc = "mAllow"
  /\ IF Allow(limiters[calls[c].limiter])
     THEN /\ limiters' = [limiters EXCEPT ![calls[c].limiter] = Take(@)]
          /\ calls' = [calls EXCEPT ![c].pc = "puCheck", ![c].mOK = "yes"]
     ELSE /\ limiters' = limiters
          /\ calls' = [calls EXCEPT ![c] =
               Reject([@ EXCEPT !.mOK = "no"], "ResourceExhausted",
                      "method rate limit exceeded")]
  /\ UNCHANGED <<clock, limiter, methodLimiters, users, perUserLimiters, perUserRate,
                 perUserBurst, methodMu, perUserMu, setter, sweeper, count>>

\* ------------------------------------------------- Admission Stage: per user
\* a per-user tier that any non-zero rate switches on
PerUserCheckNonZero(c) ==
  /\ calls[c].pc = "puCheck"
  /\ IF perUserRate # 0
     THEN LET userID == GetUserID(calls[c].hasMD, calls[c].mdUser) IN
          IF userID = ""
          THEN /\ calls' = [calls EXCEPT ![c] =
                    Reject(@, "InvalidArgument", "user_id is required")]
               /\ count' = count
          ELSE /\ calls' = [calls EXCEPT ![c].pc = "puRead", ![c].userID = userID,
                                         ![c].epoch = count.setPerUser]
               /\ count' = count
     ELSE /\ calls' = [calls EXCEPT ![c] = Handle(@)]
          /\ count' = Admitted(calls[c])
  /\ UNCHANGED <<clock, limiter, registry, setter, sweeper>>

\* if m.perUserRate > 0 { userID := common.GetUserID(ctx); if userID == "" ... }
PerUserCheck(c) ==
  /\ calls[c].pc = "puCheck"
  /\ IF perUserRate > 0
     THEN LET userID == GetUserID(calls[c].hasMD, calls[c].mdUser) IN
          IF userID = ""
          THEN /\ calls' = [calls EXCEPT ![c] =
                    Reject(@, "InvalidArgument", "user_id is required")]
               /\ count' = count
          ELSE /\ calls' = [calls EXCEPT ![c].pc = "puRead", ![c].userID = userID,
                                         ![c].epoch = count.setPerUser]
               /\ count' = count
     ELSE /\ calls' = [calls EXCEPT ![c] = Handle(@)]
          /\ count' = Admitted(calls[c])
  /\ UNCHANGED <<clock, limiter, registry, setter, sweeper>>

\* RLock; user, ok := m.perUserLimiters[userID]; RUnlock: one step, taken when
\* no writer holds perUserMu
PerUserRead(c) ==
  /\ calls[c].pc = "puRead"
  /\ perUserMu = FreeMu
  /\ LET ok == calls[c].userID \in DOMAIN perUserLimiters IN
     calls' = [calls EXCEPT
       ![c].pc = IF ok THEN "puTouch" ELSE "puCreate",
       ![c].found = ok,
       ![c].user = IF ok THEN perUserLimiters[calls[c].userID] ELSE NoUser]
  /\ UNCHANGED <<clock, limiter, registry, setter, sweeper, count>>

\* m.perUserMu.Lock(); if user, ok = m.perUserLimiters[userID]; !ok { ...
\* rate.NewLimiter(m.perUserRate, ...: the write lock is taken, the table is
\* looked up again and, the entry missing, the first argument is loaded. When
\* the entry is found the section is left with the lock still held.
PerUserCreate(c) ==
  /\ calls[c].pc = "puCreate"
  /\ perUserMu = FreeMu
  /\ IF calls[c].userID \in DOMAIN perUserLimiters
     THEN calls' = [calls EXCEPT ![c].pc = "puTouch", ![c].found = TRUE,
                                 ![c].user = perUserLimiters[calls[c].userID]]
     ELSE calls' = [calls EXCEPT ![c].pc = "puNew", ![c].rate = perUserRate]
  /\ perUserMu' = c
  /\ UNCHANGED <<clock, limiter, limiters, methodLimiters, users, perUserLimiters,
                 perUserRate, perUserBurst, methodMu, setter, sweeper, count>>

\* a create section that returns without Unlock
PerUserNewKeepsLock(c) ==
  /\ calls[c].pc = "puNew"
  /\ perUserMu = c
  /\ users' = Put(users, NewAddr,
                  [limiter |-> NewLimiter(calls[c].rate, perUserBurst),
                   lastUsed |-> clock])
  /\ calls' = [calls EXCEPT ![c].pc = "puTouch", ![c].user = NewAddr]
  /\ UNCHANGED <<clock, limiter, limiters, methodLimiters, perUserLimiters, perUserRate,
                 perUserBurst, methodMu, perUserMu, setter, sweeper, count>>

\* ... m.perUserBurst), lastUsed: time.Now() }; m.perUserMu.Unlock(): the second
\* argument is loaded, the struct is built - and not stored in the map - and
\* the lock is released
PerUserNew(c) ==
  /\ calls[c].pc = "puNew"
  /\ perUserMu = c
  /\ users' = Put(users, NewAddr,
                  [limiter |-> NewLimiter(calls[c].rate, perUserBurst),
                   lastUsed |-> clock])
  /\ calls' = [calls EXCEPT ![c].pc = "puTouch", ![c].user = NewAddr]
  /\ perUserMu' = FreeMu
  /\ UNCHANGED <<clock, limiter, limiters, methodLimiters, perUserLimiters, perUserRate,
                 perUserBurst, methodMu, setter, sweeper, count>>

\* user.lastUsed = time.Now()
PerUserTouch(c) ==
  /\ calls[c].pc = "puTouch"
  /\ users' = [users EXCEPT ![calls[c].user].lastUsed = clock]
  /\ calls' = [calls EXCEPT ![c].pc = "puAllow"]
  /\ UNCHANGED <<clock, limiter, limiters, methodLimiters, perUserLimiters, perUserRate,
                 perUserBurst, methodMu, perUserMu, setter, sweeper, count>>

PerUserAllow(c) ==
  /\ calls[c].pc = "puAllow"
  /\ IF Allow(users[calls[c].user].limiter)
     THEN /\ users' = [users EXCEPT ![calls[c].user].limiter = Take(@)]
          /\ calls' = [calls EXCEPT ![c] = Handle([@ EXCEPT !.uOK = "yes"])]
          /\ count' = Admitted(calls[c])
     ELSE /\ users' = users
          /\ calls' = [calls EXCEPT ![c] =
               Reject([@ EXCEPT !.uOK = "no"], "ResourceExhausted",
                      "per-user rate limit exceeded")]
          /\ count' = count
  /\ UNCHANGED <<clock, limiter, limiters, methodLimiters, perUserLimiters, perUserRate,
                 perUserBurst, methodMu, perUserMu, setter, sweeper>>

\* the interceptor has returned; a struct nothing refers to any more is garbage
Return(c) ==
  /\ calls[c].pc = "done"
  /\ calls' = [calls EXCEPT ![c] = IdleCall]
  /\ users' = Drop(users, {a \in DOMAIN users :
                 /\ a = calls[c].user
                 /\ \A u \in DOMAIN perUserLimiters : perUserLimiters[u] # a
                 /\ \A d \in Slots \ {c} : calls[d].user # a})
  /\ UNCHANGED <<clock, limiter, limiters, methodLimiters, perUserLimiters, perUserRate,
                 perUserBurst, methodMu, perUserMu, setter, sweeper, count>>

\* ------------------------------------------------------------ configuration
\* a SetMethodLimit that rebuilds the table with the one method in it
SetMethodLimitClears(method, limit, burst) ==
  /\ count.setMethod < MaxSetMethod
  /\ methodMu = FreeMu
  /\ limiters' = Put(limiters, NewId, NewLimiter(limit, burst))
  /\ methodLimiters' = Put(<<>>, method, NewId)
  /\ count' = [count EXCEPT !.setMethod = @ + 1]
  /\ UNCHANGED <<clock, limiter, users, perUserLimiters, perUserRate, perUserBurst, methodMu,
                 perUserMu, calls, setter, sweeper>>

\* Lock; m.methodLimiters[method] = rate.NewLimiter(limit, burst); Unlock
SetMethodLimit(method, limit, burst) ==
  /\ count.setMethod < MaxSetMethod
  /\ methodMu = FreeMu
  /\ limiters' = Put(limiters, NewId, NewLimiter(limit, burst))
  /\ methodLimiters' = Put(methodLimiters, method, NewId)
  /\ count' = [count EXCEPT !.setMethod = @ + 1]
  /\ UNCHANGED <<clock, limiter, users, perUserLimiters, perUserRate, perUserBurst, methodMu,
                 perUserMu, calls, setter, sweeper>>

\* SetPerUserLimit writes two fields without a lock: m.perUserRate = limit ...
SetPerUserRate(limit, burst) ==
  /\ setter.pc = "idle"
  /\ count.setPerUser < MaxSetPerUser
  /\ perUserRate' = limit
  /\ setter' = [pc |-> "burst", rate |-> limit, burst |-> burst]
  /\ count' = [count EXCEPT !.setPerUser = @ + 1,
                            !.templates = @ \cup {<<limit, burst>>}]
  /\ UNCHANGED <<clock, limiter, limiters, methodLimiters, users, perUserLimiters, perUserBurst,
                 methodMu, perUserMu, calls, sweeper>>

\* ... then m.perUserBurst = burst
SetPerUserBurst ==
  /\ setter.pc = "burst"
  /\ perUserBurst' = setter.burst
  /\ setter' = [pc |-> "idle", rate |-> 0, burst |-> 0]
  /\ UNCHANGED <<clock, limiter, limiters, methodLimiters, users, perUserLimiters, perUserRate,
                 methodMu, perUserMu, calls, sweeper, count>>

\* ---------------------------------------------------------- cleanupOldUsers
\* for range ticker.C { now := time.Now()
SweepTick ==
  /\ sweeper.pc = "wait"
  /\ clock >= sweeper.lastTick + CleanupInterval
  /\ sweeper' = [pc |-> "scan", now |-> clock, toDelete |-> {}, lastTick |-> clock,
                 scanned |-> {}]
  /\ UNCHANGED <<clock, limiter, registry, calls, setter, count>>

Stale(now) ==
  {u \in DOMAIN perUserLimiters : now - users[perUserLimiters[u]].lastUsed > MaxAge}

\* RLock; the scan; RUnlock; and: if len(toDelete) > 0 { continue }
SweepScan ==
  /\ sweeper.pc = "scan"
  /\ perUserMu = FreeMu
  /\ LET toDelete == Stale(sweeper.now) IN
     sweeper' = [sweeper EXCEPT !.toDelete = toDelete,
                                !.scanned = DOMAIN perUserLimiters,
                                !.pc = IF Cardinality(toDelete) > 0 THEN "wait" ELSE "delete"]
  /\ UNCHANGED <<clock, limiter, registry, calls, setter, count>>

\* Lock; for _, userID := range toDelete { delete(m.perUserLimiters, userID) };
\* Unlock
SweepDelete ==
  /\ sweeper.pc = "delete"
  /\ perUserMu = FreeMu
  /\ perUserLimiters' = Drop(perUserLimiters, sweeper.toDelete)
  /\ users' = Drop(users, {a \in DOMAIN users :
                 /\ \E u \in sweeper.toDelete \cap DOMAIN perUserLimiters :
                      perUserLimiters[u] = a
                 /\ \A d \in Slots : calls[d].user # a})
  /\ sweeper' = [sweeper EXCEPT !.pc = "wait"]
  /\ UNCHANGED <<clock, limiter, limiters, methodLimiters, perUserRate, perUserBurst, methodMu,
                 perUserMu, calls, setter, count>>

\* -------------------------------------------------------------------- time
AdvanceClock ==
  /\ count.elapsed < MaxElapsed
  /\ clock' = clock + 1
  /\ limiter' = Refill(limiter, 1)
  /\ count' = [count EXCEPT !.elapsed = @ + 1]
  /\ limiters' = [i \in DOMAIN limiters |-> Refill(limiters[i], 1)]
  /\ users' = [a \in DOMAIN users |-> [users[a] EXCEPT !.limiter = Refill(@, 1)]]
  /\ UNCHANGED <<methodLimiters, perUserLimiters, perUserRate, perUserBurst, methodMu,
                 perUserMu, calls, setter, sweeper>>

\* ---------------------------------------------------------- specification
Interceptor(c) ==
  \/ Global(c)
  \/ MethodRead(c)
  \/ MethodAllow(c)
  \/ PerUserCheck(c)
  \/ PerUserRead(c)
  \/ PerUserCreate(c)
  \/ PerUserNew(c)
  \/ PerUserTouch(c)
  \/ PerUserAllow(c)

cleanupOldUsers == SweepTick \/ SweepScan \/ SweepDelete

Next ==
  \/ \E c \in Slots : Auth(c, ChainInputs, ChainResults, TRUE)
  \/ \E c \in Slots : Interceptor(c)
  \/ \E c \in Slots : Return(c)
  \/ \E m \in Methods, r \in Rates, b \in Bursts : SetMethodLimit(m, r, b)
  \/ \E r \in Rates, b \in Bursts : SetPerUserRate(r, b)
  \/ SetPerUserBurst
  \/ cleanupOldUsers
  \/ AdvanceClock

Spec == Init /\ [][Next]_vars

\* the goroutines are scheduled fairly: a call's goroutine, the sweeper's and a
\* SetPerUserLimit in progress each take their next step when it stays possible
Fairness ==
  /\ \A c \in Slots : WF_vars(Interceptor(c))
  /\ WF_vars(cleanupOldUsers)
  /\ WF_vars(SetPerUserBurst)

\* the Auth Stage alone, on every authorization value and validator result
AuthInputs ==
  {Carries(FALSE, <<>>), Carries(TRUE, <<>>)} \cup {Carries(TRUE, <<v>>) : v \in AuthValues}

AuthNext ==
  \/ Auth("c1", AuthInputs, ValidatorResults, FALSE)
  \/ Return("c1")

AuthSpec == Init /\ [][AuthNext]_vars

\* a registry whose per-user template was set (or left unset) before traffic,
\* reconfigured once while calls are in flight; its global bucket is large
\* enough for every call to pass the first two tiers
ConfigBurst == 2 * MaxCalls

\* SetPerUserLimit(limit rate.Limit, burst int): any sign
PerUserLimits == (0 - MaxRate)..MaxRate

ConfigInit ==
  /\ clock = 0
  /\ limiter = NewLimiter(MaxRate, MaxBurst)
  /\ calls = [c \in Slots |-> IdleCall]
  /\ setter = [pc |-> "idle", rate |-> 0, burst |-> 0]
  /\ limiters = (0 :> NewLimiter(MaxRate, ConfigBurst))
  /\ methodLimiters = <<>>
  /\ users = <<>>
  /\ perUserLimiters = <<>>
  /\ methodMu = FreeMu
  /\ perUserMu = FreeMu
  /\ sweeper = [pc |-> "wait", now |-> 0, toDelete |-> {}, lastTick |-> 0,
                scanned |-> {}]
  /\ \E t \in {<<0, 0>>} \cup (Rates \X Bursts) :
       /\ perUserRate = t[1]
       /\ perUserBurst = t[2]
       /\ count = [started |-> 0, elapsed |-> 0, setMethod |-> 0, setPerUser |-> 0,
                   admitted |-> [u \in Users \cup {""} |-> 0],
                   templates |-> {<<0, 0>>, t}]

ConfigNext ==
  \/ \E c \in Slots : Auth(c, ChainInputs, ChainResults, TRUE)
  \/ \E c \in Slots : Interceptor(c)
  \/ \E c \in Slots : Return(c)
  \/ \E r \in PerUserLimits, b \in Bursts : SetPerUserRate(r, b)
  \/ SetPerUserBurst

ConfigSpec == ConfigInit /\ [][ConfigNext]_vars

\* calls, the sweeper and SetMethodLimit side by side under fair scheduling, in a
\* registry whose per-user template was set before traffic
LiveInit ==
  /\ ConfigInit
  /\ perUserRate = MaxRate
  /\ perUserBurst = MaxBurst

LiveNext ==
  \/ \E c \in Slots : Auth(c, ChainInputs, ChainResults, TRUE)
  \/ \E c \in Slots : Interceptor(c)
  \/ \E c \in Slots : Return(c)
  \/ \E m \in Methods, r \in Rates, b \in Bursts : SetMethodLimit(m, r, b)
  \/ cleanupOldUsers
  \/ AdvanceClock

FairSpec == LiveInit /\ [][LiveNext]_vars /\ Fairness

\* a registry some of whose methods were given limits before traffic, with the
\* per-user tier never configured; SetMethodLimit is called once more while
\* calls are in flight
MethodInit ==
  /\ Quiet
  /\ users = <<>>
  /\ perUserLimiters = <<>>
  /\ perUserRate = 0
  /\ perUserBurst = 0
  /\ methodMu = FreeMu
  /\ perUserMu = FreeMu
  /\ sweeper = [pc |-> "wait", now |-> 0, toDelete |-> {}, lastTick |-> 0,
                scanned |-> {}]
  /\ \E set \in SUBSET Methods, b \in Bursts :
       LET id == [m \in set |-> IF m = "M2" /\ "M1" \in set THEN 2 ELSE 1] IN
       /\ methodLimiters = id
       /\ limiters = [i \in {0} \cup {id[m] : m \in set} |->
                        IF i = 0 THEN NewLimiter(MaxRate, ConfigBurst)
                        ELSE NewLimiter(MaxRate, b)]

MethodNext ==
  \/ \E c \in Slots : Auth(c, ChainInputs, ChainResults, TRUE)
  \/ \E c \in Slots : Global(c) \/ MethodRead(c) \/ MethodAllow(c) \/ PerUserCheck(c)
  \/ \E c \in Slots : Return(c)
  \/ \E m \in Methods, r \in Rates, b \in Bursts : SetMethodLimit(m, r, b)

MethodSpec == MethodInit /\ [][MethodNext]_vars

\* the three interceptors side by side: calls to a server that installs
\* AuthInterceptor alone, RateLimiterInterceptor alone, or AuthInterceptor in
\* front of the MethodRateLimiterInterceptor
StageNext ==
  \/ Auth("c1", AuthInputs, ValidatorResults, FALSE)
  \/ \E c \in Slots : RateLimiterInterceptor(c)
  \/ \E c \in Slots : Auth(c, ChainInputs, ChainResults, TRUE)
  \/ \E c \in Slots : Interceptor(c)
  \/ \E c \in Slots : Return(c)

StageSpec == ConfigInit /\ [][StageNext]_vars

\* ------------------------------------------------------------------ claims
Quiescent == \A c \in Slots : calls[c].pc \in {"idle", "done"}
Exhausted(c) == calls[c].pc = "done" /\ calls[c].status = "ResourceExhausted"

\* C1: once a call that went through the per-caller tier has returned, the
\* caller table holds the entry for its identity, and that entry is the one
\* whose limiter the call consumed from
C1_OneEntryPerIdentity ==
  \A c \in Slots :
    (calls[c].pc = "done" /\ calls[c].uOK # "unset") =>
      /\ calls[c].userID \in DOMAIN perUserLimiters
      /\ perUserLimiters[calls[c].userID] = calls[c].user

\* C2: when a sweep tick has completed, no entry of the table is older than
\* maxAge as of the tick's scan (the scanned-stale entries that were not
\* refreshed are gone), and every entry the scan did not find stale is still
\* in the table
C2_TickRemovesStale ==
  (sweeper.pc = "wait" /\ sweeper.lastTick > 0) =>
    /\ Stale(sweeper.now) = {}
    /\ (sweeper.scanned \ sweeper.toDelete) \subseteq DOMAIN perUserLimiters

\* C3: in a freshly constructed registry (no method override, per-caller
\* limiting unconfigured, no refill yet) with global burst B, never more than B
\* calls are admitted, and when all calls have ended a call has been rejected
\* with ResourceExhausted only if B calls were admitted
Fresh == count.elapsed = 0 /\ count.setMethod = 0 /\ count.setPerUser = 0

C3_BurstAdmitsExactlyB ==
  Fresh =>
    /\ count.admitted[""] <= limiters[0].burst
    /\ (Quiescent /\ \E c \in Slots : Exhausted(c)) =>
         count.admitted[""] >= limiters[0].burst

\* C4: with per-caller limiting configured once (rate > 0, burst B) and no
\* refill, at most B calls of one identity are admitted
C4_PerCallerBurst ==
  (count.elapsed = 0 /\ count.setPerUser = 1 /\ setter.pc = "idle" /\ perUserRate > 0) =>
    \A u \in Users : count.admitted[u] <= perUserBurst

\* C5: the step in which a call is rejected at the global tier changes no
\* limiter's tokens (method-tier or caller-tier) and not the caller table
GlobalReject(c) ==
  /\ calls[c].pc = "global"
  /\ calls'[c].pc = "done"
  /\ calls'[c].msg = "global rate limit exceeded"

C5_GlobalRejectFrame ==
  [][\A c \in Slots : GlobalReject(c) =>
       /\ limiters' = limiters
       /\ users' = users
       /\ perUserLimiters' = perUserLimiters
       /\ calls'[c].status = "ResourceExhausted"
       /\ calls'[c].user = NoUser]_vars

C5_Witness ==
  \E c \in Slots :
    /\ calls[c].pc = "done"
    /\ calls[c].msg = "global rate limit exceeded"
    /\ count.setMethod > 0
    /\ perUserRate > 0

\* C6: the tiers are evaluated in the order global, method, per-caller and
\* evaluation stops at the first rejection: a tier is evaluated only after the
\* earlier ones admitted, a rejecting tier ends the call with ResourceExhausted
\* and its own message, and a call rejected at the method tier has not read the
\* identity and holds no caller entry
C6_TierOrder ==
  \A c \in Slots :
    LET k == calls[c] IN
    /\ k.mOK # "unset" => k.gOK = "yes"
    /\ k.uOK # "unset" => k.mOK = "yes"
    /\ k.userID # "" => k.mOK = "yes"
    /\ k.user # NoUser => k.mOK = "yes"
    /\ k.handled => k.gOK = "yes" /\ k.mOK = "yes" /\ k.uOK # "no"
    /\ k.gOK = "no" =>
         k.pc = "done" /\ k.status = "ResourceExhausted"
         /\ k.msg = "global rate limit exceeded"
    /\ k.mOK = "no" =>
         k.pc = "done" /\ k.status = "ResourceExhausted"
         /\ k.msg = "method rate limit exceeded"
         /\ k.uOK = "unset" /\ k.userID = "" /\ k.user = NoUser
    /\ k.uOK = "no" =>
         k.pc = "done" /\ k.status = "ResourceExhausted"
         /\ k.msg = "per-user rate limit exceeded"
    /\ (k.pc = "done" /\ k.status = "ResourceExhausted") =>
         k.gOK = "no" \/ k.mOK = "no" \/ k.uOK = "no"

C6_Witness ==
  \E c \in Slots :
    /\ calls[c].pc = "done"
    /\ calls[c].msg = "method rate limit exceeded"
    /\ perUserRate > 0
    /\ GetUserID(calls[c].hasMD, calls[c].mdUser) # ""

\* C7: a call that passed authentication with subject s is limited under the
\* identity s, and with s non-empty it never fails for a missing identity
C7_IdentityIsSubject ==
  \A c \in Slots :
    (calls[c].auth.next /\ calls[c].auth.ctx.user_id # "") =>
      /\ calls[c].userID # "" => calls[c].userID = calls[c].auth.ctx.user_id
      /\ calls[c].msg # "user_id is required"

\* C8: an authorization value that does not start with "Bearer " ends the call
\* with Unauthenticated and the validator is not invoked
C8_NoBearerPrefixRejected ==
  \A c \in Slots :
    (/\ calls[c].pc = "done" /\ calls[c].hasMD /\ calls[c].authz # <<>>
     /\ ~HasPrefix(calls[c].authz[1], BearerSp)) =>
      /\ calls[c].status = "Unauthenticated"
      /\ calls[c].auth.validated = NotCalled
      /\ ~calls[c].handled

\* C9: for "Bearer " + t the validator is invoked with exactly t, and when it
\* accepts, the next handler runs with the validator's subject, roles and
\* permissions in the context
C9_ClaimsReachContext ==
  \A c \in Slots :
    (/\ calls[c].pc = "done" /\ calls[c].hasMD /\ calls[c].authz # <<>>
     /\ HasPrefix(calls[c].authz[1], BearerSp)) =>
      /\ BearerSp \o calls[c].auth.validated = calls[c].authz[1]
      /\ ~calls[c].vres.err =>
           /\ calls[c].handled
           /\ calls[c].auth.ctx.set
           /\ calls[c].auth.ctx.user_id = calls[c].vres.sub.val
           /\ calls[c].auth.ctx.roles = calls[c].vres.roles.val
           /\ calls[c].auth.ctx.permissions = calls[c].vres.permissions.val

\* C10: a call without metadata, without an authorization value, or whose
\* token the validator refuses ends with Unauthenticated and the next handler
\* is not invoked; in the first two cases the validator is not invoked
C10_AuthFailureTerminal ==
  \A c \in Slots :
    calls[c].pc = "done" =>
      /\ (~calls[c].hasMD \/ calls[c].authz = <<>>) =>
           /\ calls[c].status = "Unauthenticated"
           /\ ~calls[c].handled
           /\ calls[c].auth.validated = NotCalled
      /\ (calls[c].auth.validated # NotCalled /\ calls[c].vres.err) =>
           /\ calls[c].status = "Unauthenticated"
           /\ ~calls[c].handled

C10_Witness ==
  \E c \in Slots :
    /\ calls[c].pc = "done"
    /\ calls[c].auth.validated # NotCalled
    /\ calls[c].vres.err
    /\ calls[c].status = "Unauthenticated"

\* C11: the per-caller tier is evaluated exactly when the template rate read at
\* the check is > 0. When it is, a call with an empty identity ends with
\* InvalidArgument "user_id is required", its handler not invoked and no
\* caller entry or limiter created, and a call with an identity goes on to the
\* caller table. When it is not (never set, or set to a rate <= 0), the call is
\* admitted whatever its identity, and the caller table is left as it was.
C11_PerUserTierGate ==
  [][\A c \in Slots :
       (calls[c].pc = "puCheck" /\ calls'[c].pc # "puCheck") =>
         LET userID == GetUserID(calls[c].hasMD, calls[c].mdUser) IN
         /\ (perUserRate > 0 /\ userID = "") =>
               /\ calls'[c].pc = "done"
               /\ calls'[c].status = "InvalidArgument"
               /\ calls'[c].msg = "user_id is required"
               /\ ~calls'[c].handled
               /\ calls'[c].user = NoUser
               /\ users' = users /\ perUserLimiters' = perUserLimiters
         /\ (perUserRate > 0 /\ userID # "") =>
               /\ calls'[c].pc = "puRead"
               /\ calls'[c].userID = userID
               /\ ~calls'[c].handled
         /\ perUserRate <= 0 =>
               /\ calls'[c].pc = "done"
               /\ calls'[c].handled /\ calls'[c].status = "OK"
               /\ calls'[c].uOK = "unset" /\ calls'[c].user = NoUser
               /\ users' = users /\ perUserLimiters' = perUserLimiters]_vars

\* one call was refused for its missing identity while the tier was on, and
\* another, carrying an identity, was admitted past the tier after
\* SetPerUserLimit switched it off
C11_Witness ==
  \E c, d \in Slots :
    /\ calls[c].pc = "done" /\ calls[c].msg = "user_id is required"
    /\ calls[c].status = "InvalidArgument" /\ ~calls[c].handled
    /\ calls[d].pc = "done" /\ calls[d].handled /\ calls[d].uOK = "unset"
    /\ calls[d].mdUser # <<>>
    /\ count.setPerUser = 1 /\ perUserRate <= 0

\* C12: SetPerUserLimit changes the template only for entries created after it:
\* a call whose per-caller tier starts after a SetPerUserLimit, from an identity
\* that an earlier call (one that reached the tier before that SetPerUserLimit)
\* already has a limiter for, is limited by that same limiter - its rate, burst
\* and remaining tokens - and not by one made from the new template.
C12_ExistingLimiterKept ==
  \A c, d \in Slots :
    ( /\ calls[c].userID # "" /\ calls[c].userID = calls[d].userID
      /\ calls[c].user # NoUser /\ calls[d].user # NoUser
      /\ calls[c].epoch < calls[d].epoch ) =>
        /\ calls[d].user = calls[c].user
        /\ users[calls[d].user].limiter.rate = users[calls[c].user].limiter.rate
        /\ users[calls[d].user].limiter.burst = users[calls[c].user].limiter.burst

\* C13: the method tier of a call to M takes its token from M's own limiter
\* when M has one in the table (SetMethodLimit(M, ...) was called) and from the
\* default limiter otherwise, and from no other limiter. SetMethodLimit(M, r, b)
\* puts a new limiter with a full bucket of b tokens in M's place, read by
\* every lookup after it; the table's entries for other methods, the default
\* limiter and every limiter that existed before keep their state.
C13_MethodLimiterOwnOrDefault ==
  [][/\ \A c \in Slots :
          (calls[c].pc = "mRead" /\ calls'[c].pc # "mRead") =>
            calls'[c].limiter = IF calls[c].method \in DOMAIN methodLimiters
                                THEN methodLimiters[calls[c].method] ELSE 0
     /\ \A c \in Slots :
          (calls[c].pc = "mAllow" /\ calls'[c].pc # "mAllow") =>
            LET k == calls[c].limiter IN
            /\ \A i \in DOMAIN limiters \ {k} : limiters'[i] = limiters[i]
            /\ calls'[c].mOK = "yes" => limiters'[k].tokens = limiters[k].tokens - 1
            /\ calls'[c].mOK = "no" => limiters'[k] = limiters[k] /\ limiters[k].tokens = 0
     /\ count'.setMethod # count.setMethod =>
          \E m \in Methods :
            /\ DOMAIN methodLimiters' = DOMAIN methodLimiters \cup {m}
            /\ \A o \in DOMAIN methodLimiters \ {m} : methodLimiters'[o] = methodLimiters[o]
            /\ methodLimiters'[m] \notin DOMAIN limiters
            /\ limiters'[methodLimiters'[m]].tokens = limiters'[methodLimiters'[m]].burst
            /\ \A i \in DOMAIN limiters : limiters'[i] = limiters[i]]_vars

\* SetMethodLimit replaced M1's limiter while M2 kept its own; a call to M1
\* then took its token from the new limiter and a call to M2 from M2's
C13_Witness ==
  /\ count.setMethod = 1
  /\ DOMAIN methodLimiters = Methods
  /\ \E c, d \in Slots :
       /\ calls[c].method = "M1" /\ calls[c].mOK = "yes"
       /\ calls[c].limiter = methodLimiters["M1"] /\ calls[c].limiter = 3
       /\ limiters[1].tokens = limiters[1].burst
       /\ limiters[3].tokens < limiters[3].burst
       /\ calls[d].method = "M2" /\ calls[d].mOK = "yes"
       /\ calls[d].limiter = methodLimiters["M2"]
       /\ limiters[2].tokens < limiters[2].burst

\* the status codes with which the interceptors' own checks reject a call
Rejections == {"Unauthenticated", "ResourceExhausted", "InvalidArgument"}

\* C14: each interceptor (RateLimiterInterceptor, the MethodRateLimiterInterceptor,
\* AuthInterceptor) invokes the next handler at most once per call, exactly when
\* none of its checks rejects, and then returns the handler's result as it is;
\* when a check rejects, the handler is not invoked.
C14_HandlerIffNoRejection ==
  [][\A c \in Slots :
       /\ (calls[c].pc # "done" /\ calls'[c].pc = "done") =>
             /\ calls'[c].handled <=> calls'[c].status \notin Rejections
             /\ calls'[c].handled => calls'[c].status = "OK"
       /\ calls[c].handled => (calls'[c] = calls[c] \/ calls'[c] = IdleCall)]_vars

\* C15: once a call with a non-empty identity has been through the per-caller
\* tier, admitted or rejected there, the caller table has an entry for that
\* identity whose lastUsed is the time of that call (or of a later call of the
\* same identity).
C15_LastUsedRefreshed ==
  \A c \in Slots :
    (calls[c].pc = "done" /\ calls[c].uOK # "unset") =>
      /\ calls[c].userID \in DOMAIN perUserLimiters
      /\ users[perUserLimiters[calls[c].userID]].lastUsed >= users[calls[c].user].lastUsed

\* C16: in every interleaving of a sweep tick with calls, the sweeper removes
\* no entry whose lastUsed was refreshed after the tick's scan began: an entry
\* that leaves the table is, at that moment, still older than maxAge as of the
\* tick's time.
C16_RefreshedEntryKept ==
  [][\A u \in DOMAIN perUserLimiters :
       u \notin DOMAIN perUserLimiters' =>
         sweeper.now - users[perUserLimiters[u]].lastUsed > MaxAge]_vars

\* C17: under fair scheduling every call that enters the
\* MethodRateLimiterInterceptor returns, whatever calls, sweep ticks and
\* SetMethodLimit calls run beside it; methodMu and perUserMu are never left
\* held by a section that has ended (perUserMu is held only by a call inside
\* its create section); no call waits for ever.
C17_CallsReturn ==
  /\ [](/\ methodMu = FreeMu
        /\ perUserMu # FreeMu => calls[perUserMu].pc = "puNew")
  /\ \A c \in Slots : (calls[c].pc \notin {"idle", "done"}) ~> (calls[c].pc = "done")

\* a call has been through the write-locked create section and returned its
\* result, a sweep tick has run its two locked passes, and SetMethodLimit has
\* run its locked section
C17_Witness ==
  /\ methodMu = FreeMu /\ perUserMu = FreeMu
  /\ count.setMethod = 1
  /\ sweeper.pc = "wait" /\ sweeper.lastTick > 0
  /\ \E c \in Slots : calls[c].pc = "done" /\ calls[c].user # NoUser /\ ~calls[c].found

\* C18: a token taken at an earlier tier is never given back when a later tier
\* rejects. Passing the global tier takes one token from the default limiter and
\* passing the method tier one from the resolved method limiter; a call rejected
\* at the method tier has passed the global tier, a call rejected at the
\* per-caller tier (missing identity or caller limit) has passed both; and the
\* rejecting step, like every other step but the passing of time, adds no
\* token to any limiter.
C18_NoRefund ==
  [][/\ \A c \in Slots :
          /\ (calls[c].gOK = "unset" /\ calls'[c].gOK = "yes") =>
                limiters'[0].tokens = limiters[0].tokens - 1
          /\ (calls[c].mOK = "unset" /\ calls'[c].mOK = "yes") =>
                limiters'[calls[c].limiter].tokens = limiters[calls[c].limiter].tokens - 1
          /\ (calls[c].pc # "done" /\ calls'[c].pc = "done"
                /\ calls'[c].status \in Rejections) =>
                /\ limiters' = limiters
                /\ calls'[c].msg = "method rate limit exceeded" => calls'[c].gOK = "yes"
                /\ calls'[c].msg \in {"user_id is required", "per-user rate limit exceeded"} =>
                      calls'[c].gOK = "yes" /\ calls'[c].mOK = "yes"
     /\ clock' = clock =>
          \A i \in DOMAIN limiters : limiters'[i].tokens <= limiters[i].tokens]_vars

\* a call was rejected for its missing identity after it had taken a token from
\* the default limiter and one from its method's own limiter, and both are
\* still missing
C18_Witness ==
  \E c \in Slots :
    /\ calls[c].pc = "done" /\ calls[c].msg = "user_id is required"
    /\ calls[c].gOK = "yes" /\ calls[c].mOK = "yes"
    /\ calls[c].limiter # 0
    /\ limiters[0].tokens < limiters[0].burst
    /\ limiters[calls[c].limiter].tokens < limiters[calls[c].limiter].burst

\* C19: with SetPerUserLimit running beside calls, every per-caller limiter
\* that is created has the (rate, burst) pair of one template - the one before
\* the update or the one after, never the rate of one with the burst of the
\* other - and it is a template under which the tier is configured (rate > 0),
\* the one the call's "configured" decision was taken on.
C19_TemplateAtomic ==
  \A a \in DOMAIN users :
    /\ <<users[a].limiter.rate, users[a].limiter.burst>> \in count.templates
    /\ users[a].limiter.rate > 0

\* C20: for every authorization value of every length - the empty string, the
\* bare word "Bearer", values shorter than the 7 characters the scheme takes -
\* and a validator whose claims have the types the interceptor asserts, the
\* Auth Stage ends in one of two ways: an Unauthenticated error with the handler
\* not invoked, or the handler invoked. It never aborts.
C20_AuthNeverAborts ==
  \A c \in Slots :
    (calls[c].pc = "done" /\ calls[c].vres \in {ErrResult} \cup TypedResults) =>
      \/ calls[c].status = "Unauthenticated" /\ ~calls[c].handled
      \/ calls[c].status = "OK" /\ calls[c].handled

====
